---- MODULE Spec2Model ----
(***************************************************************************)
(* Credit metering and transcription orchestration of the HyperWhisper     *)
(* edge worker: the request handlers (multipart "/", streamed              *)
(* "/transcribe", "/post-process"), the credit gate, the trial device     *)
(* store, the per-IP daily quota, the licensed billing backend and the     *)
(* background deduction tasks, plus the duplex streaming session.          *)
(*                                                                         *)
(* Units.  Credit amounts are integers in hundredths of a credit (the code *)
(* rounds to tenths, so a tenth is 10 units).  USD amounts are integers in *)
(* micro-dollars (the precision of roundUsd).  Sizes are in KiB.           *)
(***************************************************************************)
EXTENDS Integers, Sequences, FiniteSets, TLC

\* ------------------------------------------------------------------ units
CentiPerCredit == 100
Tenth == CentiPerCredit \div 10
Credits(n) == n * CentiPerCredit

Max(a, b) == IF a >= b THEN a ELSE b
CeilDiv(a, b) == -((-a) \div b)

\* ------------------------------------------------------- program constants
CREDITS_PER_MINUTE == 630
TRIAL_CREDIT_ALLOCATION == 150
INITIAL_DEVICE_CREDITS == Credits(TRIAL_CREDIT_ALLOCATION)
DAILY_FREE_CREDITS == Credits(TRIAL_CREDIT_ALLOCATION)
MicroUsdPerCredit == 1000
KiBPerMinute == 1024
LARGE_FILE_THRESHOLD == 30720
MAX_AUDIO_SIZE == 2097152
ESTIMATED_POST_PROCESS_CREDITS == 100
maxRetries == 3
initialDelayMs == 1000
MAX_RETRIES == 3
INITIAL_BACKOFF_MS == 1000
backoffMultiplier == 2
DEEPGRAM_COST_PER_AUDIO_MINUTE == 4300

\* ------------------------------------------------------------------ bounds
MaxStarted == 2
MaxFaults == 1
MaxDays == 1
MaxResults == 2
MaxEstimateKiB == 400
MaxCostMicroUsd == 150
MaxClientCalls == 2

\* ------------------------------------------------------------- input sets
Endpoints == {"legacy", "stream", "postprocess"}
PipelineEndpoints == {"legacy", "postprocess"}
Sizes == {20480, 40960, MAX_AUDIO_SIZE + 1}
SttCosts == {9500, 198000}
LlmCosts == {300}
LicenseKeys == {"good", "bad"}
BackendBalances == {30000}
Durations == {60}
ErrorClasses == {"auth", "transient", "edge_blocked"}
EstimateSizes == 0..MaxEstimateKiB
CostSamples == 1..MaxCostMicroUsd

\* ------------------------------------------------------------ pure functions
\* Math.round((value + EPSILON) * 10) / 10 on a value given in hundredths.
roundToTenth(v) == ((v + (Tenth \div 2)) \div Tenth) * Tenth

\* Math.ceil((value - EPSILON) * 10) / 10 on the rational num/den hundredths,
\* never negative.
roundUpToTenthOf(num, den) ==
    LET r == CeilDiv(num, den * Tenth) * Tenth IN IF r <= 0 THEN 0 ELSE r

roundUpToTenth(v) == roundUpToTenthOf(v, 1)

\* Faulty variant of calculateCreditsForCost: the credits are rounded to the
\* nearest tenth.
calculateCreditsForCostNearest(costUsd) ==
    IF costUsd <= 0 THEN Tenth
    ELSE Max(Tenth, roundToTenth((costUsd * CentiPerCredit) \div MicroUsdPerCredit))

\* costUsd * 1000 credits, rounded up to a tenth, never below 0.1; a cost of
\* zero or less is charged 0.1 as well.
calculateCreditsForCost(costUsd) ==
    IF costUsd <= 0 THEN Tenth
    ELSE Max(Tenth, roundUpToTenthOf(costUsd * CentiPerCredit, MicroUsdPerCredit))

\* Faulty variant of EstimateFromKiB: the seconds are not floored at 10.
EstimateFromKiBNoFloor(kb) ==
    LET tenths == CeilDiv(kb * 60 * (CREDITS_PER_MINUTE \div Tenth), KiBPerMinute * 60)
    IN  Max(Tenth, IF tenths <= 0 THEN 0 ELSE tenths * Tenth)

\* Seconds are max(10, size / 1MiB * 60); credits are seconds / 60 * 6.3,
\* rounded up to a tenth.  The product is taken in tenths to stay in range.
EstimateFromKiB(kb) ==
    LET secNum == Max(10 * KiBPerMinute, kb * 60)
        tenths == CeilDiv(secNum * (CREDITS_PER_MINUTE \div Tenth), KiBPerMinute * 60)
    IN  Max(Tenth, IF tenths <= 0 THEN 0 ELSE tenths * Tenth)

estimateCreditsFromSize(kb) == EstimateFromKiB(kb)

estimateCreditsFromContentLength(kb) == EstimateFromKiB(kb)

\* Faulty variant of backoffDelay: the delay grows by the initial delay with
\* each attempt.
backoffDelayLinear(attempt) == initialDelayMs * (attempt + 1)

\* retryWithBackoff: the delay before the attempt after the given one,
\* initialDelayMs * backoffMultiplier ^ attempt.
backoffDelay(attempt) == initialDelayMs * backoffMultiplier ^ attempt

hasSufficientBalance(balance, estimatedCredits) == balance >= estimatedCredits

hasDeviceSufficientCredits(balance, requiredCredits) ==
    balance.creditsRemaining >= requiredCredits

\* ------------------------------------------------------------------ state
VARIABLES
    deviceKV,     \* DEVICE_CREDITS record of the device: device_credits:{id}
    ipDaily,      \* RATE_LIMITER counters ip_daily:{ip}:{date}, one per day
    today,        \* index of the current UTC date
    ipBlocked,    \* RATE_LIMITER flag ip_blocked:{ip}
    licBackend,   \* balance of the good license in the billing backend
    licCache,     \* LICENSE_CACHE entries license:{key} written by validateAndGetCredits
    polarCache,   \* LICENSE_CACHE entries license:{key} written by validateAndGetCustomer
    req,          \* the request being handled
    resp,         \* the response returned for the request
    tasks,        \* promises handed to ctx.waitUntil
    sess,         \* the duplex session: sockets, accrued duration, settlement
    started,      \* number of requests received
    faults,       \* number of store or backend failures injected
    client        \* a call of the ElevenLabs client: its retry loop

vars == <<deviceKV, ipDaily, today, ipBlocked, licBackend, licCache, polarCache,
          req, resp, tasks, sess, started, faults, client>>

TaskIds == 1..(2 * MaxStarted)
DevTask(rid) == 2 * rid - 1
SideTask(rid) == 2 * rid
Days == 0..MaxDays
Callers == 0..(2 * MaxStarted)

NoRecord ==
    [exists |-> FALSE, creditsRemaining |-> 0, totalAllocated |-> 0, creditsUsed |-> 0]

NoEntry == [cached |-> FALSE, isValid |-> FALSE, credits |-> 0]

NoBalance ==
    [creditsRemaining |-> 0, totalAllocated |-> 0, creditsUsed |-> 0, isExhausted |-> FALSE]

NoTask ==
    [kind |-> "none", rid |-> 0, amount |-> 0, pc |-> "none", bal |-> NoBalance,
     cur |-> 0, day |-> 0, caught |-> FALSE]

\* What endSession computed, and whether it went to the client as
\* session_complete.
NoComplete == [sent |-> FALSE, duration_seconds |-> 0, credits_used |-> 0]

NoSession ==
    [up |-> "none", client |-> "none", sessionEnded |-> FALSE, totalDurationSeconds |-> 0,
     results |-> 0, settles |-> 0, stopped |-> FALSE,
     upstreamClose |-> "idle", clientClose |-> "idle", complete |-> NoComplete]

\* A field the body of a response does not have.
Absent == -1

\* The fields of a 402 body the model keeps.
NoBody == [credits_remaining |-> Absent, minutes_remaining |-> Absent,
           minutes_required |-> Absent]

NoResponse ==
    [status |-> 0, kind |-> "none", credits |-> 0, ppApplied |-> FALSE,
     corrected |-> "none", details |-> "none", body |-> NoBody]

NoClient ==
    [pc |-> "idle", calls |-> 0, attempt |-> 0, requests |-> 0, statuses |-> <<>>,
     gaps |-> <<>>, lastError |-> 0, source |-> "none"]

IdleRequest ==
    [pc |-> "idle", ep |-> "none", rid |-> 0, idKind |-> "none", key |-> "none",
     kb |-> 0, est |-> 0, authOk |-> FALSE, userCredits |-> 0,
     gate |-> "none", gateBalance |-> 0, gateIpUsed |-> 0,
     attempt |-> 0, sttCalls |-> 0, llmCalls |-> 0, called |-> FALSE,
     sttCost |-> 0, llmCost |-> 0, wantPP |-> FALSE, ppApplied |-> FALSE,
     staged |-> FALSE, deletes |-> 0, deducts |-> 0,
     lastError |-> "none", corrected |-> "none", sttProviders |-> {},
     waited |-> <<>>]

Init ==
    /\ deviceKV = NoRecord
    /\ ipDaily = [d \in Days |-> 0]
    /\ today = 0
    /\ ipBlocked = FALSE
    /\ licBackend \in BackendBalances
    /\ licCache = [k \in LicenseKeys |-> NoEntry]
    /\ polarCache = [k \in LicenseKeys |-> NoEntry]
    /\ req = IdleRequest
    /\ resp = NoResponse
    /\ tasks = [t \in TaskIds |-> NoTask]
    /\ sess = NoSession
    /\ started = 0
    /\ faults = 0
    /\ client = NoClient

\* An awaited store or backend call either succeeds or fails; failures are
\* drawn from a budget.
Outcomes == IF faults < MaxFaults THEN {"ok", "err"} ELSE {"ok"}
Charge(o) == faults' = IF o = "ok" THEN faults ELSE faults + 1

\* What a call of the licensing backend can come to: an answer, a throw, or a
\* reply that parses and does not say the license is valid.
ReplyOutcomes == IF faults < MaxFaults THEN {"ok", "err", "malformed"} ELSE {"ok"}

\* ------------------------------------------------------- device credit store
\* Faulty variant of initialBalance: the record of a new device is written
\* with the credits of a post-processing request already taken off.
initialBalanceCharged ==
    [exists |-> TRUE,
     creditsRemaining |-> INITIAL_DEVICE_CREDITS - ESTIMATED_POST_PROCESS_CREDITS,
     totalAllocated |-> INITIAL_DEVICE_CREDITS,
     creditsUsed |-> ESTIMATED_POST_PROCESS_CREDITS]

\* initializeDevice: the record of a new device.
initialBalance ==
    [exists |-> TRUE, creditsRemaining |-> INITIAL_DEVICE_CREDITS,
     totalAllocated |-> INITIAL_DEVICE_CREDITS, creditsUsed |-> 0]

\* getDeviceBalance, the branch that follows initializeDevice.
FreshBalance ==
    [creditsRemaining |-> roundToTenth(INITIAL_DEVICE_CREDITS),
     totalAllocated |-> INITIAL_DEVICE_CREDITS, creditsUsed |-> 0, isExhausted |-> FALSE]

\* getDeviceBalance, the catch branch: the exhausted state.
ExhaustedBalance ==
    [creditsRemaining |-> 0, totalAllocated |-> INITIAL_DEVICE_CREDITS,
     creditsUsed |-> INITIAL_DEVICE_CREDITS, isExhausted |-> TRUE]

\* getDeviceBalance, the branch that parses an existing record.
BalanceFromRecord(rec) ==
    [creditsRemaining |-> roundToTenth(rec.creditsRemaining),
     totalAllocated |-> rec.totalAllocated,
     creditsUsed |-> roundToTenth(rec.creditsUsed),
     isExhausted |-> roundToTenth(rec.creditsRemaining) <= 0]

\* Faulty variant of KvGetDevice: a read that throws yields the fresh balance.
KvGetDeviceOpen(o) ==
    IF o = "err" THEN [next |-> "bal", bal |-> FreshBalance]
    ELSE IF ~deviceKV.exists THEN [next |-> "init", bal |-> NoBalance]
    ELSE [next |-> "bal", bal |-> BalanceFromRecord(deviceKV)]

\* The kv.get of getDeviceBalance: the balance it returns, or the need to
\* initialize the device first.
KvGetDevice(o) ==
    IF o = "err" THEN [next |-> "bal", bal |-> ExhaustedBalance]
    ELSE IF ~deviceKV.exists THEN [next |-> "init", bal |-> NoBalance]
    ELSE [next |-> "bal", bal |-> BalanceFromRecord(deviceKV)]

\* Faulty variant of updatedBalance: the remainder is not floored at zero.
updatedBalanceUnclamped(currentBalance, creditsToDeduct) ==
    [exists |-> TRUE,
     creditsRemaining |-> roundToTenth(currentBalance.creditsRemaining - creditsToDeduct),
     totalAllocated |-> currentBalance.totalAllocated,
     creditsUsed |-> roundToTenth(currentBalance.creditsUsed + creditsToDeduct)]

\* deductDeviceCredits: the record written from the balance read.
updatedBalance(currentBalance, creditsToDeduct) ==
    [exists |-> TRUE,
     creditsRemaining |-> roundToTenth(Max(0, currentBalance.creditsRemaining - creditsToDeduct)),
     totalAllocated |-> currentBalance.totalAllocated,
     creditsUsed |-> roundToTenth(currentBalance.creditsUsed + creditsToDeduct)]

\* ------------------------------------------------------------ IP daily quota
\* Faulty variant of checkRateLimit: the quota always covers the request.
checkRateLimitOpen(stored, estimatedCredits, o) ==
    [allowed |-> TRUE, creditsUsed |-> roundToTenth(stored),
     creditsRemaining |-> roundToTenth(Max(0, DAILY_FREE_CREDITS - roundToTenth(stored)))]

\* Faulty variant of checkRateLimit: a request that fills the quota exactly is
\* denied.
checkRateLimitStrict(stored, estimatedCredits, o) ==
    IF o = "err"
    THEN [allowed |-> FALSE, creditsUsed |-> DAILY_FREE_CREDITS, creditsRemaining |-> 0]
    ELSE LET used == roundToTenth(stored) IN
         [allowed |-> roundToTenth(used + estimatedCredits) < DAILY_FREE_CREDITS,
          creditsUsed |-> used,
          creditsRemaining |-> roundToTenth(Max(0, DAILY_FREE_CREDITS - used))]

\* Faulty variant of checkRateLimit: a read that throws reports no usage.
checkRateLimitFailOpen(stored, estimatedCredits, o) ==
    LET used == IF o = "err" THEN 0 ELSE roundToTenth(stored) IN
    [allowed |-> roundToTenth(used + estimatedCredits) <= DAILY_FREE_CREDITS,
     creditsUsed |-> used,
     creditsRemaining |-> roundToTenth(Max(0, DAILY_FREE_CREDITS - used))]

\* checkRateLimit: o = "err" is a kv.get that throws.
checkRateLimit(stored, estimatedCredits, o) ==
    IF o = "err"
    THEN [allowed |-> FALSE, creditsUsed |-> DAILY_FREE_CREDITS, creditsRemaining |-> 0]
    ELSE LET creditsUsed == roundToTenth(stored)
             creditsAfterRequest == roundToTenth(creditsUsed + estimatedCredits)
         IN  [allowed |-> creditsAfterRequest <= DAILY_FREE_CREDITS,
              creditsUsed |-> creditsUsed,
              creditsRemaining |-> roundToTenth(Max(0, DAILY_FREE_CREDITS - creditsUsed))]

\* Faulty variant of newCredits: the counter is written back as it was read.
newCreditsStale(currentCredits, creditsUsed) == roundToTenth(currentCredits)

\* incrementUsage: the counter written from the counter read.
newCredits(currentCredits, creditsUsed) ==
    roundToTenth(roundToTenth(currentCredits) + roundToTenth(creditsUsed))

\* ------------------------------------------------------------ request intake
stores == <<deviceKV, ipDaily, today, ipBlocked, licBackend, licCache, polarCache>>

\* The handler returns a response.  Its working values end with it; what is
\* kept of the request is who sent it and what it asked for, what the gate
\* read and decided, which providers were called, and what was handed to
\* waitUntil.  A 500 carries the
\* message of the error that was caught.
RespondWith(r, status, kind, credits, body) ==
    /\ req' = [r EXCEPT !.pc = "done", !.attempt = 0, !.userCredits = 0,
                        !.sttCalls = 0, !.llmCalls = 0, !.sttCost = 0, !.llmCost = 0,
                        !.ppApplied = FALSE, !.lastError = "none", !.corrected = "none",
                        !.waited = <<>>]
    /\ resp' = [status |-> status, kind |-> kind, credits |-> credits,
                ppApplied |-> r.ppApplied, corrected |-> r.corrected,
                details |-> IF status = 500 THEN r.lastError ELSE "none",
                body |-> body]

\* A response whose body has none of the fields of a 402.
Respond(r, status, kind, credits) == RespondWith(r, status, kind, credits, NoBody)

\* Faulty variant of insufficientCreditsResponse: the body reports the
\* estimate as what remains.
insufficientCreditsResponseEstimate(balance, estimated) ==
    [credits_remaining |-> estimated,
     minutes_remaining |-> estimated \div CREDITS_PER_MINUTE,
     minutes_required |-> CeilDiv(estimated, CREDITS_PER_MINUTE)]

\* insufficientCreditsResponse, and the 402 the streamed handler builds: the
\* balance, and the whole minutes it and the estimate come to.
insufficientCreditsResponse(balance, estimated) ==
    [credits_remaining |-> balance,
     minutes_remaining |-> balance \div CREDITS_PER_MINUTE,
     minutes_required |-> CeilDiv(estimated, CREDITS_PER_MINUTE)]

\* deviceCreditsExhaustedResponse: the balance, and no minutes.
deviceCreditsExhaustedResponse(balance) ==
    [NoBody EXCEPT !.credits_remaining = balance]

\* The 402 of a request the gate denied.  validateCredits answers a license
\* with insufficientCreditsResponse and a device with
\* deviceCreditsExhaustedResponse; "/transcribe" builds the body of
\* insufficientCreditsResponse for both.
DenialBody(ep, idKind, balance, estimated) ==
    IF ep = "stream" \/ idKind = "license"
    THEN insufficientCreditsResponse(balance, estimated)
    ELSE deviceCreditsExhaustedResponse(balance)

\* A request arrives at one of the three handlers.
StartRequest(ep, idKind, key, kb, wantPP) ==
    /\ req.pc \in {"idle", "done"}
    /\ started < MaxStarted
    /\ started' = started + 1
    /\ req' = [IdleRequest EXCEPT !.pc = "ipcheck", !.ep = ep, !.rid = started + 1,
                                  !.idKind = idKind, !.key = key, !.kb = kb, !.wantPP = wantPP]
    /\ resp' = NoResponse
    /\ UNCHANGED <<stores, tasks, sess, faults>>
    /\ UNCHANGED client

\* checkIPBlocked and isIPBlocked: a read that throws lets the request through.
CheckIPBlocked(o) ==
    /\ req.pc = "ipcheck"
    /\ Charge(o)
    /\ IF o = "ok" /\ ipBlocked
       THEN Respond(req, 403, "ip_blocked", 0)
       ELSE req' = [req EXCEPT !.pc = "parse"] /\ UNCHANGED resp
    /\ UNCHANGED <<stores, tasks, started, sess>>
    /\ UNCHANGED client

\* The streamed handler wants a positive Content-Length; then the size limit
\* of the upload, then the presence of an identifier; the estimate is
\* computed once these passed.  The streamed handler accepts a device id as
\* it is and goes to the gate.
ParseRequest ==
    /\ req.pc = "parse"
    /\ IF req.ep = "stream" /\ req.kb <= 0
       THEN Respond(req, 400, "invalid_content_length", 0)
       ELSE IF req.kb > MAX_AUDIO_SIZE
       THEN Respond(req, 413, "too_large", 0)
       ELSE IF req.idKind = "none"
       THEN Respond(req, 401, "no_identifier", 0)
       ELSE /\ req' = [req EXCEPT !.pc = IF req.ep = "stream" /\ req.idKind = "device"
                                          THEN "gate" ELSE "auth",
                                  !.authOk = (req.ep = "stream" /\ req.idKind = "device"),
                                  !.est = CASE req.ep = "legacy" -> estimateCreditsFromSize(req.kb)
                                            [] req.ep = "stream" -> estimateCreditsFromContentLength(req.kb)
                                            [] OTHER -> ESTIMATED_POST_PROCESS_CREDITS]
            /\ UNCHANGED resp
    /\ UNCHANGED <<stores, tasks, started, sess, faults>>
    /\ UNCHANGED client

\* --------------------------------------------------------------------- auth
\* Where a request goes once validateAuth accepted it: the duplex handler has
\* no gate and connects upstream.
AfterAuth(ep) == IF ep = "ws" THEN "connect" ELSE "gate"

\* validateAndGetCredits and validateAndGetCustomer, the cache lookup: a hit
\* answers from the cache, a miss goes to the backend.  getLicenseFromCache
\* turns a read that throws into a miss; that failure is not drawn from the
\* budget, so that a failure of the backend can follow it.
ValidateAuthCached(o) ==
    /\ req.pc = "auth"
    /\ req.idKind = "license"
    /\ LET entry == IF req.ep = "stream" THEN polarCache[req.key] ELSE licCache[req.key] IN
       IF o = "err" \/ ~entry.cached
       THEN req' = [req EXCEPT !.pc = "auth_fetch"] /\ UNCHANGED resp
       ELSE IF ~entry.isValid
       THEN Respond(req, 401, "invalid_license", 0)
       ELSE /\ req' = [req EXCEPT !.pc = AfterAuth(req.ep), !.authOk = TRUE, !.userCredits = entry.credits]
            /\ UNCHANGED resp
    /\ UNCHANGED <<stores, tasks, started, sess, faults>>
    /\ UNCHANGED client

\* What the backend answers for a license key.
BackendValidation(key) ==
    [cached |-> TRUE, isValid |-> key = "good", credits |-> IF key = "good" THEN licBackend ELSE 0]

\* Faulty variant of validateFromBackend: a failure of the backend lets the
\* license through with no credits.
validateFromBackendOpen(key, o) ==
    IF o = "ok" THEN BackendValidation(key)
    ELSE [cached |-> FALSE, isValid |-> TRUE, credits |-> 0]

\* validateAndGetCredits and validateAndGetCustomer from the backend call on:
\* the answer of the backend; a reply that does not say valid is an invalid
\* license and is cached as one; a call that throws is an invalid license and
\* is not cached.
validateFromBackend(key, o) ==
    IF o = "ok" THEN BackendValidation(key)
    ELSE [cached |-> o = "malformed", isValid |-> FALSE, credits |-> 0]

\* validateAndGetCredits and validateAndGetCustomer, the backend call, and
\* what validateAuth makes of its result.
ValidateAuthFetch(o) ==
    /\ req.pc = "auth_fetch"
    /\ Charge(o)
    /\ LET v == validateFromBackend(req.key, o) IN
       /\ IF v.isValid
          THEN /\ req' = [req EXCEPT !.pc = AfterAuth(req.ep), !.authOk = TRUE, !.userCredits = v.credits]
               /\ UNCHANGED resp
          ELSE Respond(req, 401, "invalid_license", 0)
       /\ IF ~v.cached THEN UNCHANGED <<licCache, polarCache>>
          ELSE IF req.ep = "stream"
          THEN /\ polarCache' = [polarCache EXCEPT ![req.key] = [v EXCEPT !.credits = 0]]
               /\ UNCHANGED licCache
          ELSE /\ licCache' = [licCache EXCEPT ![req.key] = v]
               /\ UNCHANGED polarCache
    /\ UNCHANGED <<deviceKV, ipDaily, today, ipBlocked, licBackend, tasks, started, sess>>
    /\ UNCHANGED client

\* Faulty variant of ValidateAuthTrial: a device that reads as exhausted is
\* rejected at authentication.
ValidateAuthTrialStrict(o) ==
    /\ req.pc = "auth"
    /\ req.idKind = "device"
    /\ Charge(o)
    /\ LET g == KvGetDevice(o) IN
       IF g.next = "init"
       THEN req' = [req EXCEPT !.pc = "auth_init"] /\ UNCHANGED resp
       ELSE IF g.bal.isExhausted
       THEN Respond(req, 402, "device_exhausted", 0)
       ELSE /\ req' = [req EXCEPT !.pc = AfterAuth(req.ep), !.authOk = TRUE,
                                  !.userCredits = g.bal.creditsRemaining]
            /\ UNCHANGED resp
    /\ UNCHANGED <<stores, tasks, started, sess>>
    /\ UNCHANGED client

\* validateAuth for a device id: the kv.get of getDeviceBalance.  Every
\* device id authenticates.
ValidateAuthTrial(o) ==
    /\ req.pc = "auth"
    /\ req.idKind = "device"
    /\ Charge(o)
    /\ LET g == KvGetDevice(o) IN
       req' = IF g.next = "init" THEN [req EXCEPT !.pc = "auth_init"]
              ELSE [req EXCEPT !.pc = AfterAuth(req.ep), !.authOk = TRUE,
                               !.userCredits = g.bal.creditsRemaining]
    /\ UNCHANGED <<stores, resp, tasks, started, sess>>
    /\ UNCHANGED client

\* -------------------------------------------------------------- credit gate
\* Where a request goes once the gate let it through.
FirstStage(r) ==
    CASE r.ep = "postprocess" -> "llm"
      [] r.ep = "stream" /\ r.kb >= LARGE_FILE_THRESHOLD -> "upload"
      [] OTHER -> "stt"

Admit(r) == [r EXCEPT !.pc = FirstStage(r), !.gate = "passed"]

\* Faulty variant of validateLicensedCredits: every balance is enough.
validateLicensedCreditsOpen(credits, estimatedCredits) == TRUE

\* validateLicensedCredits: the balance obtained at authentication against
\* the estimate.
validateLicensedCredits(credits, estimatedCredits) ==
    hasSufficientBalance(roundToTenth(credits), estimatedCredits)

\* Faulty variant of deviceCovers: the device half is left to the quota of the
\* address.
deviceCoversAny(ep, balance, estimatedCredits) == TRUE

\* validateTrialCredits and the streamed handler, the device half.
deviceCovers(ep, balance, estimatedCredits) ==
    IF ep = "stream" THEN hasDeviceSufficientCredits(balance, estimatedCredits)
    ELSE ~(balance.isExhausted \/ balance.creditsRemaining < estimatedCredits)

\* The gate of a licensed request on "/" and "/post-process".
GateLicensed ==
    /\ req.pc = "gate"
    /\ req.idKind = "license"
    /\ req.ep \in PipelineEndpoints
    /\ LET r == [req EXCEPT !.gateBalance = roundToTenth(req.userCredits)] IN
       IF validateLicensedCredits(req.userCredits, req.est)
       THEN req' = Admit(r) /\ UNCHANGED resp
       ELSE RespondWith([r EXCEPT !.gate = "insufficient"], 402, "insufficient_credits", 0,
                        DenialBody(req.ep, "license", r.gateBalance, req.est))
    /\ UNCHANGED <<stores, tasks, started, sess, faults>>
    /\ UNCHANGED client

\* The gate of a licensed request on "/transcribe": getCustomerMeterBalance
\* reads the balance from the backend; a call that throws reads 0.
GateLicensedMeter(o) ==
    /\ req.pc = "gate"
    /\ req.idKind = "license"
    /\ req.ep = "stream"
    /\ Charge(o)
    /\ LET balance == IF o = "ok" THEN licBackend ELSE 0
           r == [req EXCEPT !.userCredits = balance, !.gateBalance = roundToTenth(balance)] IN
       IF hasSufficientBalance(roundToTenth(balance), req.est)
       THEN req' = Admit(r) /\ UNCHANGED resp
       ELSE RespondWith([r EXCEPT !.gate = "insufficient"], 402, "insufficient_credits", 0,
                        DenialBody(req.ep, "license", r.gateBalance, req.est))
    /\ UNCHANGED <<stores, tasks, started, sess>>
    /\ UNCHANGED client

\* The device half of the trial gate, given the balance getDeviceBalance
\* returned.
GateDeviceDecision(balance) ==
    LET r == [req EXCEPT !.gateBalance = balance.creditsRemaining] IN
    IF deviceCovers(req.ep, balance, req.est)
    THEN req' = [r EXCEPT !.pc = "gate_ip"] /\ UNCHANGED resp
    ELSE RespondWith([r EXCEPT !.gate = "device_exhausted"], 402, "device_exhausted", 0,
                     DenialBody(req.ep, "device", balance.creditsRemaining, req.est))

\* The trial gate: the kv.get of getDeviceBalance.
GateDeviceGet(o) ==
    /\ req.pc = "gate"
    /\ req.idKind = "device"
    /\ Charge(o)
    /\ LET g == KvGetDevice(o) IN
       IF g.next = "init"
       THEN req' = [req EXCEPT !.pc = "gate_init"] /\ UNCHANGED resp
       ELSE GateDeviceDecision(g.bal)
    /\ UNCHANGED <<stores, tasks, started, sess>>
    /\ UNCHANGED client

\* getDeviceBalance for a device never seen, in whichever caller reached it
\* (0 is the handler, at authentication or at the gate; otherwise a task):
\* initializeDevice writes the allocation and the balance is the fresh one; a
\* write that throws yields the exhausted state.
InitializeDevice(c, o) ==
    /\ Charge(o)
    /\ deviceKV' = IF o = "ok" THEN initialBalance ELSE deviceKV
    /\ LET balance == IF o = "ok" THEN FreshBalance ELSE ExhaustedBalance IN
       CASE c = 0 /\ req.pc = "auth_init" ->
                /\ req' = [req EXCEPT !.pc = AfterAuth(req.ep), !.authOk = TRUE,
                                      !.userCredits = balance.creditsRemaining]
                /\ UNCHANGED <<resp, tasks>>
         [] c = 0 /\ req.pc = "gate_init" ->
                GateDeviceDecision(balance) /\ UNCHANGED tasks
         [] c > 0 /\ tasks[c].pc = "init" ->
                /\ tasks' = [tasks EXCEPT ![c] = [@ EXCEPT !.pc = "put", !.bal = balance]]
                /\ UNCHANGED <<req, resp>>
         [] OTHER -> FALSE
    /\ UNCHANGED <<ipDaily, today, ipBlocked, licBackend, licCache, polarCache, started, sess>>
    /\ UNCHANGED client

\* The trial gate, the IP half: checkRateLimit on today's counter.
GateRateLimit(o) ==
    /\ req.pc = "gate_ip"
    /\ Charge(o)
    /\ LET rateLimit == checkRateLimit(ipDaily[today], req.est, o)
           r == [req EXCEPT !.gateIpUsed = rateLimit.creditsUsed] IN
       IF rateLimit.allowed
       THEN req' = Admit(r) /\ UNCHANGED resp
       ELSE Respond([r EXCEPT !.gate = "ip_rate_limit"], 429, "ip_rate_limit", 0)
    /\ UNCHANGED <<stores, tasks, started, sess>>
    /\ UNCHANGED client

\* ------------------------------------------------------ providers and billing
Failure == [ok |-> FALSE, source |-> "none", costUsd |-> 0]

\* The errors a provider call throws, by what the vendor answered: 401 is
\* "auth", 429, 5xx and a failed fetch are "transient", a rejection by the
\* network edge in front of the vendor is "edge_blocked".
Failures == {[Failure EXCEPT !.source = c] : c \in ErrorClasses}

\* The provider every handler sends the audio to, as the responses name it.
SttProvider == "deepgram-nova3"

\* transcribeWithDeepgram: a throw, an empty transcript, or a transcript with
\* its cost.
SttOutcomes ==
    Failures \cup {[ok |-> TRUE, source |-> "no_speech", costUsd |-> 0]}
        \cup {[ok |-> TRUE, source |-> "deepgram", costUsd |-> c] : c \in SttCosts}

\* The chat completion: a throw, a reply without corrected text, or a reply
\* with its cost.
LlmOutcomes ==
    Failures \cup {[ok |-> TRUE, source |-> "malformed", costUsd |-> 0]}
        \cup {[ok |-> TRUE, source |-> "llm", costUsd |-> c] : c \in LlmCosts}

\* actualCredits of the three handlers.
actualCredits(totalCostUsd) == roundToTenth(calculateCreditsForCost(totalCostUsd))

\* A task that settled keeps its kind, its request, its amount and its end.
Settled(t, end) ==
    [NoTask EXCEPT !.kind = t.kind, !.rid = t.rid, !.amount = t.amount, !.pc = end,
                   !.caught = t.caught]

\* Faulty variant of Deduction: the usage of a license is counted against the
\* address as well.
DeductionCounted(r, amount) ==
    LET t == [NoTask EXCEPT !.rid = r.rid, !.amount = amount, !.day = today,
                            !.caught = (r.ep = "ws")] IN
    [tasks EXCEPT ![DevTask(r.rid)] =
                      IF r.idKind = "license"
                      THEN [t EXCEPT !.kind = "incrementUsage", !.pc = "get"]
                      ELSE [t EXCEPT !.kind = "deductDeviceCredits", !.pc = "get"],
                  ![SideTask(r.rid)] =
                      IF r.idKind = "license"
                      THEN [t EXCEPT !.kind = IF r.ep = "stream" THEN "ingestUsageEvent"
                                              ELSE "recordUsage",
                                     !.pc = "fetch"]
                      ELSE [t EXCEPT !.kind = "incrementUsage", !.pc = "get"]]

\* The promises the handler hands to ctx.waitUntil for the deduction.
\* deductCredits: recordUsage for a license, deductDeviceCredits and
\* incrementUsage together for a device.  The streamed handler: ingestUsageEvent
\* for a license, deductDeviceCredits and incrementUsage for a device.
Deduction(r, amount) ==
    LET t == [NoTask EXCEPT !.rid = r.rid, !.amount = amount, !.day = today,
                            !.caught = (r.ep = "ws")] IN
    IF r.idKind = "license"
    THEN [tasks EXCEPT ![SideTask(r.rid)] =
             [t EXCEPT !.kind = IF r.ep = "stream" THEN "ingestUsageEvent" ELSE "recordUsage",
                       !.pc = "fetch"]]
    ELSE [tasks EXCEPT ![DevTask(r.rid)] = [t EXCEPT !.kind = "deductDeviceCredits", !.pc = "get"],
                       ![SideTask(r.rid)] = [t EXCEPT !.kind = "incrementUsage", !.pc = "get"]]

\* Faulty variant of Bill: the deduction is handed to waitUntil twice.
BillTwice(r) ==
    LET amount == actualCredits(r.sttCost + r.llmCost) IN
    /\ tasks' = Deduction(r, amount)
    /\ Respond([r EXCEPT !.deducts = r.deducts + 2], 200, "ok", amount)

\* Faulty variant of Bill: the deduction is awaited, so the response is
\* produced once its tasks have settled.
BillAwaited(r) ==
    LET amount == actualCredits(r.sttCost + r.llmCost)
        spawned == Deduction(r, amount) IN
    /\ tasks' = [i \in TaskIds |->
                    IF spawned[i].rid = r.rid /\ spawned[i].kind # "none"
                    THEN Settled(spawned[i], "done") ELSE spawned[i]]
    /\ Respond([r EXCEPT !.deducts = r.deducts + 1], 200, "ok", amount)

\* The end of a successful request: the actual cost, the deduction handed to
\* waitUntil, and the 200 response, in one synchronous stretch.
Bill(r) ==
    LET amount == actualCredits(r.sttCost + r.llmCost) IN
    /\ tasks' = Deduction(r, amount)
    /\ Respond([r EXCEPT !.deducts = r.deducts + 1], 200, "ok", amount)

\* Faulty variant of NoSpeechDetected: silence is charged the minimum.
NoSpeechCharged(r) ==
    /\ tasks' = Deduction(r, Tenth)
    /\ Respond([r EXCEPT !.deducts = r.deducts + 1], 200, "no_speech", Tenth)

\* The provider found no speech: 200 with no_speech_detected, zero credits,
\* nothing handed to waitUntil.
NoSpeechDetected(r) == Respond(r, 200, "no_speech", 0) /\ UNCHANGED tasks

\* Faulty variant of ProviderFailed: the estimate is charged for the failure.
ProviderFailedCharged(r) ==
    /\ tasks' = Deduction(r, r.est)
    /\ Respond([r EXCEPT !.deducts = r.deducts + 1], 500, "internal_error", 0)

\* Faulty variant of ProviderFailed: whatever the error, the audio is sent to
\* a second provider, which fails as well.
ProviderFailedFallback(r) ==
    /\ Respond([r EXCEPT !.sttProviders = r.sttProviders \cup {"elevenlabs-scribe-v2"}],
               500, "internal_error", 0)
    /\ UNCHANGED tasks

\* The catch clause of a handler: a provider error that escaped the retries
\* is a 500 and nothing is handed to waitUntil.
ProviderFailed(r) == Respond(r, 500, "internal_error", 0) /\ UNCHANGED tasks

\* Faulty variant of scheduleDelete: nothing is handed to waitUntil.
scheduleDeleteNever(r) == r

\* ctx.waitUntil(deleteFromR2(...)) of the large-file path, in its try block
\* after the provider answered and in its catch clause.
scheduleDelete(r) == [r EXCEPT !.deletes = r.deletes + 1]

\* The large-file path of "/transcribe": the body is staged in R2 before the
\* provider is given its URL; a failure schedules the delete and is a 500.
Upload(o) ==
    /\ req.pc = "upload"
    /\ Charge(o)
    /\ IF o = "ok"
       THEN req' = [req EXCEPT !.pc = "presign", !.staged = TRUE] /\ UNCHANGED resp
       ELSE Respond(scheduleDelete([req EXCEPT !.lastError = "storage"]),
                    500, "internal_error", 0)
    /\ UNCHANGED <<stores, tasks, started, sess>>
    /\ UNCHANGED client

\* The large-file path, generateR2PresignedUrl: the signed URL the provider
\* fetches the staged object from; a failure schedules the delete and is a
\* 500.
Presign(o) ==
    /\ req.pc = "presign"
    /\ Charge(o)
    /\ IF o = "ok"
       THEN req' = [req EXCEPT !.pc = "stt"] /\ UNCHANGED resp
       ELSE Respond(scheduleDelete([req EXCEPT !.lastError = "presign"]),
                    500, "internal_error", 0)
    /\ UNCHANGED <<stores, tasks, started, sess>>
    /\ UNCHANGED client

\* One call of the speech-to-text provider.  "/" retries a throw with
\* retryWithBackoff, which sleeps for the backoff delay before the next
\* attempt; "/transcribe" calls once.  No speech is a 200 that bills
\* nothing; a transcript goes on to post-processing or to billing.
Transcribe(res) ==
    /\ req.pc = "stt"
    /\ LET c == [req EXCEPT !.sttCalls = req.sttCalls + 1, !.called = TRUE,
                            !.sttProviders = req.sttProviders \cup {SttProvider},
                            !.lastError = IF res.ok THEN "none" ELSE res.source]
           r == IF req.staged THEN scheduleDelete(c) ELSE c IN
       IF ~res.ok
       THEN IF req.ep = "legacy" /\ req.attempt < maxRetries
            THEN /\ req' = [c EXCEPT !.attempt = req.attempt + 1,
                                      !.waited = Append(req.waited, backoffDelay(req.attempt))]
                 /\ UNCHANGED <<resp, tasks>>
            ELSE ProviderFailed(r)
       ELSE IF res.source = "no_speech"
       THEN NoSpeechDetected(r)
       ELSE LET t == [r EXCEPT !.sttCost = res.costUsd, !.attempt = 0, !.waited = <<>>,
                               !.corrected = IF req.ep = "legacy" THEN "transcript"
                                             ELSE "none"] IN
            IF req.ep = "legacy" /\ req.wantPP
            THEN req' = [t EXCEPT !.pc = "llm"] /\ UNCHANGED <<resp, tasks>>
            ELSE Bill(t)
    /\ UNCHANGED <<stores, started, sess, faults>>
    /\ UNCHANGED client

\* Faulty variant of PostProcessFailed: the failure of the language model
\* fails the request.
PostProcessFailedFatal(r) == ProviderFailed(r)

\* postProcess of "/", its catch clause: the transcript as it was, no cost,
\* not applied; the request goes on to billing.
PostProcessFailed(r) ==
    Bill([r EXCEPT !.llmCost = 0, !.ppApplied = FALSE, !.corrected = "transcript"])

\* One call of the language model, retried with retryWithBackoff.  On "/" a
\* failure keeps the transcript and costs nothing; on "/post-process" it is a
\* 500.
PostProcess(res) ==
    /\ req.pc = "llm"
    /\ LET r == [req EXCEPT !.llmCalls = req.llmCalls + 1, !.called = TRUE,
                            !.lastError = IF res.ok THEN "none" ELSE res.source] IN
       IF ~res.ok /\ req.attempt < maxRetries
       THEN /\ req' = [r EXCEPT !.attempt = req.attempt + 1,
                                  !.waited = Append(req.waited, backoffDelay(req.attempt))]
            /\ UNCHANGED <<resp, tasks>>
       ELSE IF res.source = "llm"
       THEN Bill([r EXCEPT !.llmCost = res.costUsd, !.ppApplied = TRUE,
                           !.corrected = "corrected"])
       ELSE IF req.ep = "legacy"
       THEN PostProcessFailed(r)
       ELSE ProviderFailed([r EXCEPT !.lastError = IF res.ok THEN "malformed"
                                                   ELSE res.source])
    /\ UNCHANGED <<stores, started, sess, faults>>
    /\ UNCHANGED client

\* ---------------------------------------------------------- background tasks
\* deductDeviceCredits, the kv.get of its getDeviceBalance.
TaskDeviceGet(i, o) ==
    /\ tasks[i].kind = "deductDeviceCredits"
    /\ tasks[i].pc = "get"
    /\ Charge(o)
    /\ LET g == KvGetDevice(o) IN
       tasks' = [tasks EXCEPT ![i] = IF g.next = "init" THEN [@ EXCEPT !.pc = "init"]
                                     ELSE [@ EXCEPT !.pc = "put", !.bal = g.bal]]
    /\ UNCHANGED <<stores, req, resp, started, sess>>
    /\ UNCHANGED client

\* deductDeviceCredits, the kv.put of the updated record; a write that throws
\* is logged and thrown again.
TaskDevicePut(i, o) ==
    /\ tasks[i].kind = "deductDeviceCredits"
    /\ tasks[i].pc = "put"
    /\ Charge(o)
    /\ deviceKV' = IF o = "ok" THEN updatedBalance(tasks[i].bal, tasks[i].amount) ELSE deviceKV
    /\ tasks' = [tasks EXCEPT ![i] = Settled(@, IF o = "ok" THEN "done" ELSE "rejected")]
    /\ UNCHANGED <<ipDaily, today, ipBlocked, licBackend, licCache, polarCache,
                   req, resp, started, sess>>
    /\ UNCHANGED client

\* incrementUsage, the kv.get of the counter of the day the task began; a
\* read that throws is logged and the task ends.
TaskUsageGet(i, o) ==
    /\ tasks[i].kind = "incrementUsage"
    /\ tasks[i].pc = "get"
    /\ Charge(o)
    /\ tasks' = [tasks EXCEPT ![i] = IF o = "ok"
                                     THEN [@ EXCEPT !.pc = "put", !.cur = ipDaily[tasks[i].day]]
                                     ELSE Settled(@, "done")]
    /\ UNCHANGED <<stores, req, resp, started, sess>>
    /\ UNCHANGED client

\* incrementUsage, the kv.put of the new counter; a write that throws is
\* logged and the task ends.
TaskUsagePut(i, o) ==
    /\ tasks[i].kind = "incrementUsage"
    /\ tasks[i].pc = "put"
    /\ Charge(o)
    /\ ipDaily' = IF o = "ok"
                  THEN [ipDaily EXCEPT ![tasks[i].day] = newCredits(tasks[i].cur, tasks[i].amount)]
                  ELSE ipDaily
    /\ tasks' = [tasks EXCEPT ![i] = Settled(@, "done")]
    /\ UNCHANGED <<deviceKV, today, ipBlocked, licBackend, licCache, polarCache,
                   req, resp, started, sess>>
    /\ UNCHANGED client

\* recordUsage and ingestUsageEvent: the usage is posted to the backend, which
\* takes it off the balance; a failure is logged and the task ends.
TaskRecordUsage(i, o) ==
    /\ tasks[i].pc = "fetch"
    /\ Charge(o)
    /\ licBackend' = IF o = "ok" THEN Max(0, licBackend - tasks[i].amount) ELSE licBackend
    /\ tasks' = [tasks EXCEPT ![i] = Settled(@, "done")]
    /\ UNCHANGED <<deviceKV, ipDaily, today, ipBlocked, licCache, polarCache,
                   req, resp, started, sess>>
    /\ UNCHANGED client

\* --------------------------------------------------------------- environment
\* The UTC date changes: getCurrentDateKey names a new counter.  The date is
\* read by checkRateLimit and when incrementUsage begins, so the change is
\* taken just before the first or between the two.
Midnight ==
    /\ today < MaxDays
    /\ req.idKind = "device"
    /\ \/ req.pc = "gate_ip"
       \/ req.gate = "passed" /\ ~req.called /\ req.pc # "done"
    /\ today' = today + 1
    /\ UNCHANGED <<deviceKV, ipDaily, ipBlocked, licBackend, licCache, polarCache,
                   req, resp, tasks, started, sess, faults>>
    /\ UNCHANGED client

\* blockIP: an operator blocks the address, while the handler is at one of the
\* given places.  The flag is read by the first step of the three request
\* handlers only, so there the block is taken just before that read; for the
\* duplex handler it is taken before the upgrade request arrives.
BlockIP(at) ==
    /\ ~ipBlocked
    /\ req.pc \in at
    /\ ipBlocked' = TRUE
    /\ UNCHANGED <<deviceKV, ipDaily, today, licBackend, licCache, polarCache,
                   req, resp, tasks, started, sess, faults>>
    /\ UNCHANGED client

\* ----------------------------------------------------------- duplex session
\* roundUsd(durationSeconds / 60 * 0.0043), in micro-dollars.
computeDeepgramTranscriptionCost(durationSeconds) ==
    (durationSeconds * DEEPGRAM_COST_PER_AUDIO_MINUTE + 30) \div 60

\* Faulty variant of markEnded: the flag is never raised.
markEndedNever(s) == s

\* endSession, the flag it raises before anything else.
markEnded(s) == [s EXCEPT !.sessionEnded = TRUE]

\* The credits endSession settles for the duration accrued.
creditsUsed(s) ==
    roundToTenth(calculateCreditsForCost(computeDeepgramTranscriptionCost(s.totalDurationSeconds)))

\* A WebSocket upgrade arrives at the duplex handler: 401 without an
\* identifier, validateAuth otherwise.
SessionRequest(idKind, key) ==
    /\ \/ req.pc \in {"idle", "done"}
       \/ /\ req.pc = "session"
          /\ sess.up = "closed" /\ sess.client = "closed"
          /\ sess.upstreamClose # "after_end" /\ sess.clientClose # "after_end"
    /\ started < MaxStarted
    /\ started' = started + 1
    /\ LET r == [IdleRequest EXCEPT !.ep = "ws", !.rid = started + 1,
                                    !.idKind = idKind, !.key = key] IN
       IF idKind = "none"
       THEN Respond(r, 401, "no_identifier", 0)
       ELSE req' = [r EXCEPT !.pc = "auth"] /\ resp' = NoResponse
    /\ sess' = NoSession
    /\ UNCHANGED <<stores, tasks, faults>>
    /\ UNCHANGED client

\* The handler opens the upstream socket, registers its listeners, accepts
\* the client socket and answers 101; a constructor that throws is a 502.
SessionAccept(o) ==
    /\ req.pc = "connect"
    /\ IF o = "ok"
       THEN /\ req' = [req EXCEPT !.pc = "session"]
            /\ resp' = [NoResponse EXCEPT !.status = 101, !.kind = "switching"]
            /\ sess' = [NoSession EXCEPT !.up = "connecting", !.client = "open"]
       ELSE Respond(req, 502, "bad_gateway", 0) /\ UNCHANGED sess
    /\ UNCHANGED <<stores, tasks, started, faults>>
    /\ UNCHANGED client

\* The upstream socket opens.
UpstreamOpen ==
    /\ req.pc = "session"
    /\ sess.up = "connecting"
    /\ sess' = [sess EXCEPT !.up = "open"]
    /\ UNCHANGED <<stores, req, resp, tasks, started, faults>>
    /\ UNCHANGED client

\* A Results message arrives: its duration is accrued.
UpstreamResult(d) ==
    /\ req.pc = "session"
    /\ sess.up \in {"open", "closing"}
    /\ sess.results < MaxResults
    /\ sess' = [sess EXCEPT !.results = @ + 1,
                            !.totalDurationSeconds = @ + d]
    /\ UNCHANGED <<stores, req, resp, tasks, started, faults>>
    /\ UNCHANGED client

\* The client sends a stop frame: the upstream socket is closed if it is open,
\* the frame is dropped otherwise.
ClientStop ==
    /\ req.pc = "session"
    /\ sess.client = "open"
    /\ sess' = IF sess.up = "open" THEN [sess EXCEPT !.up = "closing", !.stopped = TRUE]
               ELSE sess
    /\ UNCHANGED <<stores, req, resp, tasks, started, faults>>
    /\ UNCHANGED client

\* endSession past its guard: the flag, the credits for the accrued duration,
\* session_complete to a client socket that is open, and the deduction handed
\* to waitUntil with its catch.
EndSession(s) ==
    /\ sess' = [markEnded(s) EXCEPT !.settles = @ + 1,
                                    !.complete = [sent |-> s.client = "open",
                                                  duration_seconds |-> s.totalDurationSeconds,
                                                  credits_used |-> creditsUsed(s)]]
    /\ tasks' = Deduction(req, creditsUsed(s))

\* A close listener up to its await: endSession unless the session ended.
Settle(s) ==
    IF s.sessionEnded THEN sess' = s /\ UNCHANGED tasks ELSE EndSession(s)

\* The upstream socket closes, of its own accord, on a failed connection, or
\* after the handler closed it: the listener settles the session.
UpstreamCloseEvent ==
    /\ req.pc = "session"
    /\ sess.up \in {"connecting", "open", "closing"}
    /\ Settle([sess EXCEPT !.up = "closed", !.upstreamClose = "after_end"])
    /\ UNCHANGED <<stores, req, resp, started, faults>>
    /\ UNCHANGED client

\* The upstream close listener after its await: the client socket is closed
\* if it is open.
UpstreamCloseFinish ==
    /\ sess.upstreamClose = "after_end"
    /\ sess' = [sess EXCEPT !.upstreamClose = "done",
                            !.client = IF @ = "open" THEN "closing" ELSE @]
    /\ UNCHANGED <<stores, req, resp, tasks, started, faults>>
    /\ UNCHANGED client

\* The client socket closes, of its own accord or after the handler closed
\* it: the listener settles the session.
ClientCloseEvent ==
    /\ req.pc = "session"
    /\ sess.client \in {"open", "closing"}
    /\ Settle([sess EXCEPT !.client = "closed", !.clientClose = "after_end"])
    /\ UNCHANGED <<stores, req, resp, started, faults>>
    /\ UNCHANGED client

\* The client close listener after its await: the upstream socket is closed
\* if it is open.
ClientCloseFinish ==
    /\ sess.clientClose = "after_end"
    /\ sess' = [sess EXCEPT !.clientClose = "done",
                            !.up = IF @ = "open" THEN "closing" ELSE @]
    /\ UNCHANGED <<stores, req, resp, tasks, started, faults>>
    /\ UNCHANGED client

\* --------------------------------------------------------- ElevenLabs client
\* What a POST to the ElevenLabs endpoint comes to: status 0 is a fetch that
\* throws; a 200 carries a transcript or an empty text.
ElevenLabsReplies ==
    {[status |-> st, speech |-> sp] : st \in {200}, sp \in BOOLEAN}
        \cup {[status |-> st, speech |-> FALSE] : st \in {0, 401, 429, 500, 503}}

\* transcribeWithElevenLabsFromStream is called with an upload.
ElevenLabsCall ==
    /\ client.pc \in {"idle", "returned", "thrown"}
    /\ client.calls < MaxClientCalls
    /\ client' = [NoClient EXCEPT !.pc = "fetch", !.calls = client.calls + 1]
    /\ UNCHANGED <<stores, req, resp, tasks, sess, started, faults>>

\* The end of a turn of the loop whose reply was neither ok, nor a 429 with
\* attempts left, nor a client error: the loop goes to its next turn at once,
\* or ends and the last error is thrown.
afterServerError(c) ==
    IF c.attempt + 1 < MAX_RETRIES
    THEN [c EXCEPT !.attempt = c.attempt + 1, !.gaps = Append(c.gaps, 0)]
    ELSE [c EXCEPT !.pc = "thrown"]

\* One turn of the loop of transcribeWithElevenLabsFromStream: the fetch and
\* what follows from its reply.  gaps holds, for each request after the first,
\* the time slept since the reply before it.
ElevenLabsAttempt(reply) ==
    /\ client.pc = "fetch"
    /\ LET c == [client EXCEPT !.requests = client.requests + 1,
                               !.statuses = Append(client.statuses, reply.status)] IN
       client' =
          IF reply.status = 0
          THEN [c EXCEPT !.pc = "thrown"]
          ELSE IF reply.status = 200
          THEN [c EXCEPT !.pc = "returned",
                         !.source = IF reply.speech THEN "elevenlabs_scribe_v2"
                                    ELSE "no_speech"]
          ELSE IF reply.status = 429 /\ client.attempt < MAX_RETRIES - 1
          THEN [c EXCEPT !.attempt = client.attempt + 1,
                         !.gaps = Append(client.gaps, INITIAL_BACKOFF_MS * 2 ^ client.attempt)]
          ELSE IF reply.status >= 400 /\ reply.status < 500 /\ reply.status # 429
          THEN [c EXCEPT !.pc = "thrown", !.lastError = reply.status]
          ELSE afterServerError([c EXCEPT !.lastError = reply.status])
    /\ UNCHANGED <<stores, req, resp, tasks, sess, started, faults>>

\* ------------------------------------------------------------- specification
IdKinds == {"none", "device", "license"}

Next ==
    \/ \E ep \in Endpoints, idKind \in IdKinds, kb \in Sizes \cup {0}, wantPP \in BOOLEAN :
          \E key \in (IF idKind = "license" THEN LicenseKeys ELSE {"none"}) :
             /\ ep = "postprocess" <=> kb = 0
             /\ wantPP => ep = "legacy"
             /\ StartRequest(ep, idKind, key, kb, wantPP)
    \/ \E o \in Outcomes : CheckIPBlocked(o)
    \/ ParseRequest
    \/ \E o \in {"ok", "err"} : ValidateAuthCached(o)
    \/ \E o \in ReplyOutcomes : ValidateAuthFetch(o)
    \/ \E o \in Outcomes : ValidateAuthTrial(o)
    \/ GateLicensed
    \/ \E o \in Outcomes : GateLicensedMeter(o)
    \/ \E o \in Outcomes : GateDeviceGet(o)
    \/ \E c \in Callers, o \in Outcomes : InitializeDevice(c, o)
    \/ \E o \in Outcomes : GateRateLimit(o)
    \/ \E o \in Outcomes : Upload(o)
    \/ \E o \in Outcomes : Presign(o)
    \/ \E res \in SttOutcomes : Transcribe(res)
    \/ \E res \in LlmOutcomes : PostProcess(res)
    \/ \E i \in TaskIds, o \in Outcomes : TaskDeviceGet(i, o)
    \/ \E i \in TaskIds, o \in Outcomes : TaskDevicePut(i, o)
    \/ \E i \in TaskIds, o \in Outcomes : TaskUsageGet(i, o)
    \/ \E i \in TaskIds, o \in Outcomes : TaskUsagePut(i, o)
    \/ \E i \in TaskIds, o \in Outcomes : TaskRecordUsage(i, o)
    \/ Midnight
    \/ BlockIP({"ipcheck"})

Spec == Init /\ [][Next]_vars

\* The duplex session with its authentication and its deduction tasks.
SessionNext ==
    \/ \E idKind \in IdKinds :
          \E key \in (IF idKind = "license" THEN LicenseKeys ELSE {"none"}) :
             SessionRequest(idKind, key)
    \/ \E o \in {"ok", "err"} : ValidateAuthCached(o)
    \/ \E o \in ReplyOutcomes : ValidateAuthFetch(o)
    \/ \E o \in Outcomes : ValidateAuthTrial(o)
    \/ \E c \in Callers, o \in Outcomes : InitializeDevice(c, o)
    \/ \E o \in {"ok", "err"} : SessionAccept(o)
    \/ UpstreamOpen
    \/ \E d \in Durations : UpstreamResult(d)
    \/ ClientStop
    \/ UpstreamCloseEvent
    \/ UpstreamCloseFinish
    \/ ClientCloseEvent
    \/ ClientCloseFinish
    \/ \E i \in TaskIds, o \in Outcomes : TaskDeviceGet(i, o)
    \/ \E i \in TaskIds, o \in Outcomes : TaskDevicePut(i, o)
    \/ \E i \in TaskIds, o \in Outcomes : TaskUsageGet(i, o)
    \/ \E i \in TaskIds, o \in Outcomes : TaskUsagePut(i, o)
    \/ \E i \in TaskIds, o \in Outcomes : TaskRecordUsage(i, o)
    \/ BlockIP({"idle", "done"})

SessionSpec == Init /\ [][SessionNext]_vars

\* The duplex session of a device with no store failure, under the scheduling
\* of the runtime: a listener that awaits goes on, a socket the handler closed
\* gets its close event, a connection attempt opens or fails, and a task
\* handed to waitUntil runs.  An upstream socket that is open closes of its
\* own accord only if the provider chooses to.
DuplexNext ==
    \/ SessionRequest("device", "none")
    \/ ValidateAuthTrial("ok")
    \/ \E c \in Callers : InitializeDevice(c, "ok")
    \/ SessionAccept("ok")
    \/ UpstreamOpen
    \/ \E d \in Durations : UpstreamResult(d)
    \/ ClientStop
    \/ UpstreamCloseEvent
    \/ UpstreamCloseFinish
    \/ ClientCloseEvent
    \/ ClientCloseFinish
    \/ \E i \in TaskIds : TaskDeviceGet(i, "ok")
    \/ \E i \in TaskIds : TaskDevicePut(i, "ok")
    \/ \E i \in TaskIds : TaskUsageGet(i, "ok")
    \/ \E i \in TaskIds : TaskUsagePut(i, "ok")

DuplexFairness ==
    /\ WF_vars(UpstreamCloseFinish)
    /\ WF_vars(ClientCloseFinish)
    /\ WF_vars(sess.up = "closing" /\ UpstreamCloseEvent)
    /\ WF_vars(sess.client = "closing" /\ ClientCloseEvent)
    /\ WF_vars(sess.up = "connecting" /\ (UpstreamOpen \/ UpstreamCloseEvent))
    /\ WF_vars(\E i \in TaskIds : TaskDeviceGet(i, "ok") \/ TaskDevicePut(i, "ok"))
    /\ WF_vars(\E i \in TaskIds : TaskUsageGet(i, "ok") \/ TaskUsagePut(i, "ok"))

DuplexSpec == Init /\ [][DuplexNext]_vars /\ DuplexFairness

\* The intake of uploads of every size up to MaxEstimateKiB, as far as the
\* estimate.
EstimateNext ==
    \/ \E ep \in {"legacy", "stream"}, kb \in EstimateSizes :
          StartRequest(ep, "device", "none", kb, FALSE)
    \/ CheckIPBlocked("ok")
    \/ ParseRequest

EstimateSpec == Init /\ [][EstimateNext]_vars

\* Uploads of a license on "/" that ask for post-processing, with a
\* transcription cost of every amount up to MaxCostMicroUsd and a language
\* model whose reply holds no corrected text, so that the transcription cost
\* alone is billed.
CostNext ==
    \/ StartRequest("legacy", "license", "good", 20480, TRUE)
    \/ CheckIPBlocked("ok")
    \/ ParseRequest
    \/ ValidateAuthCached("ok")
    \/ ValidateAuthFetch("ok")
    \/ GateLicensed
    \/ \E c \in CostSamples : Transcribe([ok |-> TRUE, source |-> "deepgram", costUsd |-> c])
    \/ PostProcess([ok |-> TRUE, source |-> "malformed", costUsd |-> 0])
    \/ \E i \in TaskIds : TaskRecordUsage(i, "ok")

CostSpec == Init /\ [][CostNext]_vars

\* Calls of the ElevenLabs client with every reply of its endpoint.
ElevenLabsNext ==
    \/ ElevenLabsCall
    \/ \E reply \in ElevenLabsReplies : ElevenLabsAttempt(reply)

ElevenLabsSpec == Init /\ [][ElevenLabsNext]_vars

\* ------------------------------------------------------------------- claims
\* The tasks handed to waitUntil for the request being handled.
NothingDeferred ==
    /\ req.deducts = 0
    /\ \A i \in TaskIds : tasks[i].rid # req.rid \/ tasks[i].kind = "none"

\* What the gate read covers the estimate: the licensed balance, or the device
\* balance together with the IP counter of the day.
GateReadCovers ==
    IF req.idKind = "license"
    THEN req.gateBalance >= req.est
    ELSE /\ req.gateBalance >= req.est
         /\ roundToTenth(req.gateIpUsed + req.est) <= DAILY_FREE_CREDITS

AuthFailed == resp.kind \in {"no_identifier", "invalid_license"}

CreditDenied == resp.kind \in {"insufficient_credits", "device_exhausted", "ip_rate_limit"}

\* C1: a request that fails authentication or that the credit gate denies
\* never reaches a provider; a request that reached the upload, the
\* speech-to-text call or the language-model call is authenticated, has its
\* estimate, and was admitted by a gate whose reads cover the estimate.
C1_GateBeforeSpend ==
    /\ (AuthFailed \/ CreditDenied) => ~req.called /\ ~req.staged /\ req.pc = "done"
    /\ (req.pc \in {"upload", "stt", "llm"} \/ req.called \/ req.staged) =>
          /\ req.authOk
          /\ req.est >= Tenth
          /\ req.gate = "passed"
          /\ GateReadCovers

\* C1: a licensed request denied for a balance below the estimate, no provider
\* called.
C1_Witness ==
    /\ resp.kind = "insufficient_credits"
    /\ req.gateBalance < req.est
    /\ ~req.called

\* C2: a request whose audio held no speech is answered 200 with
\* no_speech_detected, is billed zero credits, and hands no deduction to
\* waitUntil.
C2_ZeroCostSilence ==
    resp.kind = "no_speech" =>
        /\ resp.status = 200
        /\ resp.credits = 0
        /\ NothingDeferred

\* C2: a no-speech response after the provider was called.
C2_Witness ==
    /\ resp.kind = "no_speech"
    /\ req.called
    /\ req.gate = "passed"

\* C3: the gate admits a trial request exactly when the device balance it read
\* covers the estimate and the IP counter it read leaves room for the
\* estimate; each half alone denies.
C3_DualGate ==
    (req.idKind = "device" /\ req.gate # "none") =>
        /\ req.gate = "passed" <=> GateReadCovers
        /\ req.gate = "device_exhausted" <=> req.gateBalance < req.est
        /\ req.gate = "ip_rate_limit" <=>
              /\ req.gateBalance >= req.est
              /\ roundToTenth(req.gateIpUsed + req.est) > DAILY_FREE_CREDITS

\* C3: a device whose stored balance covers the estimate, denied by an IP
\* counter that was read from the store and leaves no room.
C3_Witness ==
    /\ req.idKind = "device"
    /\ resp.kind = "ip_rate_limit"
    /\ deviceKV.exists
    /\ deviceKV.creditsRemaining >= req.est
    /\ req.gateIpUsed = ipDaily[today]
    /\ ipDaily[today] > 0

\* C4: a request that delivers a transcript hands its deduction to waitUntil
\* exactly once, with the credits of the actual cost, after a provider was
\* called; until the response nothing is handed over, and a request that
\* delivers no transcript hands over nothing.
C4_DeductOnce ==
    /\ req.deducts <= 1
    /\ resp.kind = "ok" =>
          /\ req.deducts = 1
          /\ req.called
          /\ \E i \in TaskIds : tasks[i].rid = req.rid /\ tasks[i].kind # "none"
          /\ \A i \in TaskIds :
                (tasks[i].rid = req.rid /\ tasks[i].kind # "none") =>
                    tasks[i].amount = resp.credits
    /\ (req.ep # "ws" /\ resp.kind # "ok") => NothingDeferred

\* C4: a transcript delivered on "/", one deduction handed over and settled.
C4_Witness ==
    /\ resp.kind = "ok"
    /\ req.ep = "legacy"
    /\ req.deducts = 1
    /\ \E i \in TaskIds : tasks[i].rid = req.rid /\ tasks[i].pc = "done"

\* C5: whatever the order of the client close, the upstream close and a stop
\* frame, the session is settled at most once, and it is settled once as soon
\* as either close listener has run.
C5_SettleOnce ==
    /\ sess.settles <= 1
    /\ sess.settles = 1 <=> sess.sessionEnded
    /\ (sess.upstreamClose # "idle" \/ sess.clientClose # "idle") => sess.settles = 1

\* C5: both close listeners ran to their end after a stop frame closed the
\* upstream socket, and the session was settled.
C5_Witness ==
    /\ sess.upstreamClose = "done"
    /\ sess.clientClose = "done"
    /\ sess.stopped
    /\ sess.totalDurationSeconds > 0
    /\ sess.settles = 1

\* C6: the remaining balance stored for a device is never below zero.
C6_BalanceFloor == deviceKV.exists => deviceKV.creditsRemaining >= 0

\* C6: a deduction larger than the balance was stored: nothing remains and
\* more was used than was allocated.
C6_Witness ==
    /\ deviceKV.exists
    /\ deviceKV.creditsRemaining = 0
    /\ deviceKV.creditsUsed > deviceKV.totalAllocated

\* C7: every stored device record has remaining = totalAllocated - used.
C7_Conservation ==
    deviceKV.exists =>
        deviceKV.creditsRemaining = deviceKV.totalAllocated - deviceKV.creditsUsed

\* C8: no deduction promise handed to waitUntil ends rejected.
C8_DeductNeverRejects == \A i \in TaskIds : tasks[i].pc # "rejected"

\* C9: the step that produces a 200 response with a transcript hands over
\* deduction tasks that have not run yet, and no later step of those tasks,
\* whatever its outcome, changes the response.
C9_ResponseNotAwaiting ==
    [][/\ (resp.kind # "ok" /\ resp'.kind = "ok") =>
              /\ \E i \in TaskIds : tasks'[i].rid = req'.rid /\ tasks'[i].kind # "none"
              /\ \A i \in TaskIds :
                    (tasks'[i].rid = req'.rid /\ tasks'[i].kind # "none") =>
                        tasks'[i].pc \in {"get", "fetch"}
       /\ (resp.kind = "ok" /\ tasks' # tasks) => resp' = resp
      ]_vars

\* C9: the response is out while one of its deduction tasks ended rejected
\* and the other has not finished.
C9_Witness ==
    /\ resp.kind = "ok"
    /\ resp.status = 200
    /\ \E i \in TaskIds : tasks[i].rid = req.rid /\ tasks[i].pc = "rejected"
    /\ \E i \in TaskIds : tasks[i].rid = req.rid /\ tasks[i].pc \in {"get", "put"}

\* C10: a request whose provider call failed past the retries is answered 500
\* and hands nothing to waitUntil, so no balance or counter moves for it.
C10_FailureBillsNothing ==
    resp.kind = "internal_error" =>
        /\ resp.status = 500
        /\ resp.credits = 0
        /\ NothingDeferred

\* C10: a 500 on "/" after the speech-to-text provider was called.
C10_Witness ==
    /\ resp.kind = "internal_error"
    /\ req.ep = "legacy"
    /\ req.called
    /\ req.gate = "passed"

\* A speech-to-text provider other than the one the handlers name was called
\* for the request.
FallbackCalled == req.sttProviders \ {SttProvider} # {}

\* The request is a transcription whose speech-to-text call failed with the
\* given class of error, either waiting for its next attempt or answered 500.
SttFailedWith(class) ==
    /\ req.ep \in {"legacy", "stream"}
    /\ \/ req.pc = "stt" /\ req.lastError = class
       \/ req.pc = "done" /\ resp.kind = "internal_error" /\ resp.details = class

\* C11: once the speech-to-text provider of a transcription raised the
\* edge-blocked class of error, the audio was sent to a fallback provider.
C11_FallbackOnEdgeBlock == SttFailedWith("edge_blocked") => FallbackCalled

C13_TransientRetried ==
    [][(/\ req.pc = "stt"
        /\ resp'.kind = "internal_error"
        /\ resp'.details = "transient") => req.attempt = maxRetries]_vars

\* C14: a provider call that failed with an auth error is not followed by
\* another attempt: no request waits at a provider with that error caught.
C14_FatalNotRetried ==
    req.lastError = "auth" => req.pc \notin {"stt", "llm"}

\* C15: on "/", when the language model fails past its retries (or its reply
\* holds no corrected text), the request is answered 200 with the transcript
\* as the corrected text, post-processing is reported not applied, and the
\* credits of the response and of the deduction are those of the
\* transcription cost alone.
C15_PostProcessFailureTolerated ==
    [][(/\ req.pc = "llm"
        /\ req.ep = "legacy"
        /\ req'.pc = "done"
        /\ ~resp'.ppApplied) =>
            /\ resp'.status = 200
            /\ resp'.kind = "ok"
            /\ resp'.corrected = "transcript"
            /\ resp'.credits = actualCredits(req.sttCost)
            /\ \E i \in TaskIds : tasks'[i].rid = req.rid /\ tasks'[i].kind # "none"
            /\ \A i \in TaskIds :
                  (tasks'[i].rid = req.rid /\ tasks'[i].kind # "none") =>
                      tasks'[i].amount = actualCredits(req.sttCost)]_vars

\* C15: a request on "/" that asked for post-processing was answered 200 with
\* the transcript untouched and post-processing not applied.
C15_Witness ==
    /\ req.ep = "legacy"
    /\ req.wantPP
    /\ resp.kind = "ok"
    /\ resp.status = 200
    /\ ~resp.ppApplied
    /\ resp.corrected = "transcript"
    /\ resp.credits = actualCredits(198000)

\* C16: when the read of the device record, or the write that initializes it,
\* throws during the gate check, the balance counts as exhausted: the request
\* is answered 402 in that step, and nothing was staged, no provider was
\* called and nothing was handed to waitUntil.
C16_BalanceReadFailsClosed ==
    [][(/\ req.idKind = "device"
        /\ req.pc \in {"gate", "gate_init"}
        /\ req' # req
        /\ faults' = faults + 1) =>
            /\ req'.pc = "done"
            /\ req'.gate = "device_exhausted"
            /\ req'.gateBalance = 0
            /\ resp'.status = 402
            /\ resp'.kind = "device_exhausted"
            /\ ~req'.called
            /\ ~req'.staged
            /\ tasks' = tasks]_vars

\* C16: a device whose stored balance covers the estimate was denied because
\* the gate read nothing.
C16_Witness ==
    /\ req.idKind = "device"
    /\ resp.kind = "device_exhausted"
    /\ req.gateBalance = 0
    /\ deviceKV.exists
    /\ deviceKV.creditsRemaining >= req.est
    /\ ~req.called

\* C17: when the validation of a license fails at the backend (the call
\* throws, or the reply does not say valid), also after a cache read that
\* threw, the request is answered 401 in that step: it is not authenticated,
\* the gate never ran, and nothing was staged, called or handed to waitUntil.
C17_ValidationFailsClosed ==
    [][(/\ req.pc = "auth_fetch"
        /\ req' # req
        /\ faults' = faults + 1) =>
            /\ req'.pc = "done"
            /\ resp'.status = 401
            /\ resp'.kind = "invalid_license"
            /\ ~req'.authOk
            /\ req'.gate = "none"
            /\ ~req'.called
            /\ ~req'.staged
            /\ tasks' = tasks]_vars

\* C17: the key the backend knows as valid was rejected, and the failure was
\* not cached.
C17_Witness ==
    /\ req.key = "good"
    /\ resp.kind = "invalid_license"
    /\ resp.status = 401
    /\ req.gate = "none"
    /\ ~req.called
    /\ ~licCache["good"].cached
    /\ ~polarCache["good"].cached

\* The estimates a request can bring to the quota: those of the uploads and of
\* a post-processing request, and the two around what the recorded usage
\* leaves of the daily limit.
QuotaEstimates(stored) ==
    {EstimateFromKiB(kb) : kb \in {k \in Sizes : k <= MAX_AUDIO_SIZE}}
        \cup {ESTIMATED_POST_PROCESS_CREDITS}
        \cup {e \in {DAILY_FREE_CREDITS - stored, DAILY_FREE_CREDITS - stored + Tenth} :
                 e >= Tenth}

\* C18: for the usage recorded for the address on the current date and any
\* estimate, checkRateLimit reports that usage and allows the request exactly
\* when usage plus estimate does not exceed the daily limit.
C18_QuotaRule ==
    \A e \in QuotaEstimates(ipDaily[today]) :
        LET status == checkRateLimit(ipDaily[today], e, "ok") IN
        /\ status.creditsUsed = ipDaily[today]
        /\ status.allowed <=> ipDaily[today] + e <= DAILY_FREE_CREDITS

\* C18: the gate admitted a trial request against a counter that already
\* held usage and still left room for the estimate.
C18_Witness ==
    /\ req.idKind = "device"
    /\ req.gate = "passed"
    /\ req.gateIpUsed > 0
    /\ req.gateIpUsed = ipDaily[today]
    /\ req.gateIpUsed + req.est <= DAILY_FREE_CREDITS

\* C19: when the read of the IP counter throws, the trial request is answered
\* 429 in that step, and nothing was staged, no provider was called and
\* nothing was handed to waitUntil.
C19_QuotaReadFailsClosed ==
    [][(/\ req.pc = "gate_ip"
        /\ req' # req
        /\ faults' = faults + 1) =>
            /\ req'.pc = "done"
            /\ req'.gate = "ip_rate_limit"
            /\ resp'.status = 429
            /\ resp'.kind = "ip_rate_limit"
            /\ ~req'.called
            /\ ~req'.staged
            /\ tasks' = tasks]_vars

\* C19: a trial request was denied by the quota although no usage is recorded
\* for the address: the read threw and the limit was reported as used.
C19_Witness ==
    /\ req.idKind = "device"
    /\ resp.kind = "ip_rate_limit"
    /\ resp.status = 429
    /\ req.gateIpUsed = DAILY_FREE_CREDITS
    /\ \A d \in Days : ipDaily[d] = 0
    /\ ~req.called

\* C20: on every entry point, the first step a handler takes for a request
\* from a blocked address rejects it with 403, before anything is parsed,
\* authenticated, read or connected.
C20_BlocklistFirst ==
    [][(/\ ipBlocked
        /\ req' # req
        /\ \/ req.pc = "ipcheck"
           \/ req'.rid # req.rid /\ req'.pc # "ipcheck") =>
            /\ req'.pc = "done"
            /\ resp'.status = 403
            /\ resp'.kind = "ip_blocked"]_vars

C22_CacheFollowsDeduction ==
    (/\ licCache["good"].cached
     /\ licCache["good"].isValid
     /\ \A i \in TaskIds : tasks[i].kind \in {"none", "recordUsage"} /\ tasks[i].pc # "fetch") =>
        licCache["good"].credits = licBackend

\* What a read of the device record yields as the remaining balance: that of
\* the record, or the allocation a device never seen is given on its first
\* read.
RemainingOf(rec) == IF rec.exists THEN rec.creditsRemaining ELSE INITIAL_DEVICE_CREDITS

\* C23: no step of the gate of a trial request, whether it admits or denies,
\* changes what the device has left or any daily counter of the address, and
\* none hands anything to waitUntil; the only write is the record of a device
\* never seen, with the full allocation.
C23_GateDoesNotDeduct ==
    [][(/\ req.idKind = "device"
        /\ req.pc \in {"gate", "gate_init", "gate_ip"}
        /\ req' # req) =>
            /\ ipDaily' = ipDaily
            /\ RemainingOf(deviceKV') = RemainingOf(deviceKV)
            /\ deviceKV.exists => deviceKV' = deviceKV
            /\ tasks' = tasks]_vars

\* C23: the gate admitted the upload of a device never seen before, and the
\* device still has its whole allocation and the address has used nothing.
C23_Witness ==
    /\ req.idKind = "device"
    /\ req.gate = "passed"
    /\ req.pc = "stt"
    /\ req.est = EstimateFromKiB(20480)
    /\ req.gateBalance = INITIAL_DEVICE_CREDITS
    /\ deviceKV.exists
    /\ deviceKV.creditsRemaining = INITIAL_DEVICE_CREDITS
    /\ \A d \in Days : ipDaily[d] = 0

\* The usage recorded for the address, over the dates.
RECURSIVE UsageUpTo(_)
UsageUpTo(d) == IF d = 0 THEN ipDaily[0] ELSE ipDaily[d] + UsageUpTo(d - 1)

\* The two deduction tasks of the first request ran to their end with no
\* store failure anywhere, no deduction of another request wrote, and the
\* credits do not exceed the allocation the device started with.
FirstDeductionCompleted ==
    /\ faults = 0
    /\ tasks[DevTask(1)].kind = "deductDeviceCredits"
    /\ tasks[DevTask(1)].pc = "done"
    /\ tasks[SideTask(1)].kind = "incrementUsage"
    /\ tasks[SideTask(1)].pc = "done"
    /\ tasks[DevTask(1)].amount <= INITIAL_DEVICE_CREDITS
    /\ \A i \in TaskIds \ {DevTask(1), SideTask(1)} :
          tasks[i].kind \in {"deductDeviceCredits", "incrementUsage"} => tasks[i].pc # "done"

\* C24: once the deduction of a successful trial request with actual credits
\* c has completed, with c within the balance and no other deduction written,
\* the device has exactly c less left and exactly c more used, and the usage
\* recorded for the address is exactly c.
C24_DeductionDecrementsBoth ==
    FirstDeductionCompleted =>
        /\ tasks[SideTask(1)].amount = tasks[DevTask(1)].amount
        /\ deviceKV.exists
        /\ deviceKV.creditsRemaining = INITIAL_DEVICE_CREDITS - tasks[DevTask(1)].amount
        /\ deviceKV.creditsUsed = tasks[DevTask(1)].amount
        /\ UsageUpTo(MaxDays) = tasks[DevTask(1)].amount

\* C24: a transcription billed 9.5 credits to a device with 150.0: the
\* response is out, both tasks are done, the device reads 140.5 and the
\* address has 9.5 used.
C24_Witness ==
    /\ FirstDeductionCompleted
    /\ req.rid = 1
    /\ req.ep \in {"legacy", "stream"}
    /\ resp.kind = "ok"
    /\ resp.credits = 950
    /\ tasks[DevTask(1)].amount = 950
    /\ deviceKV.creditsRemaining = 14050
    /\ ipDaily[today] = 950

\* The estimate a handler computes for an upload of the given size.
EstimateOf(ep, kb) ==
    IF ep = "stream" THEN estimateCreditsFromContentLength(kb)
    ELSE estimateCreditsFromSize(kb)

\* The credits of ten seconds of audio, rounded up to a tenth.
EstimateFloor == roundUpToTenthOf(10 * CREDITS_PER_MINUTE, 60)

\* C25: the estimate a handler computed for an upload is that of its size, is
\* at least the estimate of every smaller size, and is at least the estimate
\* of the empty upload, which is the credits of ten seconds of audio and not
\* zero.
C25_EstimateMonotone ==
    req.pc \in {"auth", "gate"} =>
        /\ req.est = EstimateOf(req.ep, req.kb)
        /\ \A k \in EstimateSizes : k < req.kb => EstimateOf(req.ep, k) <= req.est
        /\ EstimateOf(req.ep, 0) = EstimateFloor
        /\ req.est >= EstimateFloor
        /\ EstimateFloor > 0

\* C25: an upload on "/" beyond ten seconds of audio got an estimate above
\* that of the empty upload, which is 1.1 credits.
C25_Witness ==
    /\ req.pc = "auth"
    /\ req.ep = "legacy"
    /\ req.kb = MaxEstimateKiB
    /\ req.est > EstimateFloor
    /\ EstimateOf("legacy", 0) = 110

\* C26: the credits a handler reports and hands to the deduction for a
\* positive cost are a whole number of tenths, are not less than the cost at
\* 0.001 USD per credit, and are less than a tenth above it unless the
\* minimum of a tenth applies.
C26_RoundsUpNeverUnder ==
    [][(/\ req.pc = "llm"
        /\ req.sttCost > 0
        /\ resp'.kind = "ok"
        /\ ~resp'.ppApplied) =>
            /\ resp'.credits % Tenth = 0
            /\ resp'.credits * MicroUsdPerCredit >= req.sttCost * CentiPerCredit
            /\ (resp'.credits - Tenth) * MicroUsdPerCredit < req.sttCost * CentiPerCredit
            /\ tasks'[SideTask(req.rid)].amount = resp'.credits]_vars

\* C26: a transcription cost above 0.0001 USD and not above 0.00015 USD was
\* billed 0.2 credits, and the backend took them off the balance.
C26_Witness ==
    /\ resp.kind = "ok"
    /\ req.wantPP
    /\ ~resp.ppApplied
    /\ resp.credits = 2 * Tenth
    /\ tasks[SideTask(req.rid)].amount = 2 * Tenth
    /\ tasks[SideTask(req.rid)].pc = "done"
    /\ licBackend = 30000 - 2 * Tenth

\* C27: a request with a device id is never answered 401, and whatever
\* response it gets once its upload was accepted as such, it got after
\* authentication accepted it; a 402 or a 429 comes from the gate.
C27_TrialPassesAuth ==
    req.idKind = "device" =>
        /\ resp.status # 401
        /\ ~AuthFailed
        /\ (req.pc = "done" /\ resp.status \notin {400, 403, 413}) => req.authOk
        /\ resp.status \in {402, 429} =>
              /\ req.authOk
              /\ req.gate \in {"device_exhausted", "ip_rate_limit"}

\* C27: a device never seen sent an upload to "/", the device store failed
\* during authentication, and the request is authenticated with nothing left
\* and waits at the gate.
C27_Witness ==
    /\ req.idKind = "device"
    /\ req.ep = "legacy"
    /\ req.pc = "gate"
    /\ req.authOk
    /\ req.userCredits = 0
    /\ faults = 1
    /\ ~deviceKV.exists

\* C28: once the record of a device exists it stays, and no step, of a
\* handler or of a deduction task, leaves the device with more remaining than
\* it had before the step.
C28_BalanceNeverIncreases ==
    [][deviceKV.exists =>
          /\ deviceKV'.exists
          /\ deviceKV'.creditsRemaining <= deviceKV.creditsRemaining]_vars

\* C29: a request with a license key is never at the quota check and never
\* answered 429, the gate recorded no read of a daily counter for it, and the
\* only tasks handed to waitUntil for it post its usage to the backend; the
\* tasks that write a daily counter belong to requests with a device id.
C29_QuotaTrialOnly ==
    /\ req.idKind = "license" =>
          /\ req.pc # "gate_ip"
          /\ req.gate # "ip_rate_limit"
          /\ req.gateIpUsed = 0
          /\ resp.status # 429
          /\ resp.kind # "ip_rate_limit"
    /\ \A i \in TaskIds :
          (tasks[i].rid = req.rid /\ tasks[i].kind # "none") =>
              IF req.idKind = "license"
              THEN tasks[i].kind \in {"recordUsage", "ingestUsageEvent"}
              ELSE tasks[i].kind \in {"deductDeviceCredits", "incrementUsage"}

\* C29: an upload with a valid license key was admitted, delivered and its
\* usage posted, from an address whose counter of the day is beyond the daily
\* limit.
C29_Witness ==
    /\ req.idKind = "license"
    /\ req.ep \in {"legacy", "stream"}
    /\ req.gate = "passed"
    /\ resp.kind = "ok"
    /\ tasks[SideTask(req.rid)].pc = "done"
    /\ tasks[DevTask(req.rid)].kind = "none"
    /\ ipDaily[today] > DAILY_FREE_CREDITS

\* C30: in the duplex handler, an upstream socket exists only for a request
\* that the credit gate admitted and whose user has credits left.
C30_GateBeforeUpstream ==
    (req.ep = "ws" /\ sess.up # "none") =>
        /\ req.gate = "passed"
        /\ req.userCredits > 0

\* The credits of the tasks of the given kind that ran to their end, over the
\* tasks up to n.
RECURSIVE DeductedUpTo(_, _)
DeductedUpTo(kind, n) ==
    IF n = 0 THEN 0
    ELSE DeductedUpTo(kind, n - 1)
            + (IF tasks[n].kind = kind /\ tasks[n].pc = "done" THEN tasks[n].amount ELSE 0)

\* Every deduction handed to waitUntil for the device and the address has
\* finished, and no store call failed anywhere.
AllDeductionsFinished ==
    /\ faults = 0
    /\ \E i \in TaskIds : tasks[i].kind = "deductDeviceCredits"
    /\ \A i \in TaskIds :
          tasks[i].kind \in {"deductDeviceCredits", "incrementUsage"} => tasks[i].pc = "done"

\* C31: once all the background deductions of the requests of a device (and
\* of its address) have finished, the used total stored for the device is the
\* sum of the amounts deducted, and so is the usage stored for the address:
\* no deduction is lost through interleaved get-then-put sequences.
C31_NoLostDeduction ==
    AllDeductionsFinished =>
        /\ deviceKV.exists
        /\ deviceKV.creditsUsed = DeductedUpTo("deductDeviceCredits", 2 * MaxStarted)
        /\ UsageUpTo(MaxDays) = DeductedUpTo("incrementUsage", 2 * MaxStarted)

\* The request is inside a call of retryWithBackoff: the speech-to-text call
\* of "/", or a call of the language model.
InRetry(r) == (r.ep = "legacy" /\ r.pc = "stt") \/ r.pc = "llm"

\* The invocations retryWithBackoff made of its operation so far.
Invocations(r) == IF r.pc = "stt" THEN r.sttCalls ELSE r.llmCalls

\* The error of the operation came out of retryWithBackoff: a 500 that names
\* the class of the error.
Thrown(rs) == rs.kind = "internal_error" /\ rs.details \in ErrorClasses

\* C32: a call of retryWithBackoff with maxRetries = 3 has invoked its
\* operation as often as it has failed, at most three times while it is still
\* going, so at most four times in all; the delays it has waited are 1s, 2s
\* and 4s in that order; a step that stays in the call is a failure followed
\* by the next delay; a step that leaves it before the fourth invocation
\* returned a result, and the error is thrown by the fourth invocation only.
C32_RetryBounded ==
    [][(InRetry(req) /\ req' # req) =>
          /\ req.attempt <= maxRetries
          /\ Invocations(req) = req.attempt
          /\ req.waited = SubSeq(<<1000, 2000, 4000>>, 1, req.attempt)
          /\ IF req'.pc = req.pc
             THEN /\ req.attempt < maxRetries
                  /\ req'.attempt = req.attempt + 1
                  /\ Invocations(req') = Invocations(req) + 1
                  /\ req'.lastError \in ErrorClasses
                  /\ req'.waited = Append(req.waited, <<1000, 2000, 4000>>[req'.attempt])
                  /\ resp' = resp /\ tasks' = tasks
             ELSE /\ Thrown(resp') => req.attempt = maxRetries
                  /\ req.attempt < maxRetries => ~Thrown(resp')]_vars

\* C32: the speech-to-text call of "/" failed three times and waits for its
\* fourth invocation, after delays of 1s, 2s and 4s.
C32_Witness ==
    /\ req.ep = "legacy"
    /\ req.pc = "stt"
    /\ req.attempt = maxRetries
    /\ req.sttCalls = 3
    /\ req.waited = <<1000, 2000, 4000>>
    /\ req.lastError = "transient"

\* The request takes the large-file path of "/transcribe": the gate admitted
\* an upload of LARGE_FILE_THRESHOLD or more.
TakesStagedPath(r) ==
    r.ep = "stream" /\ r.kb >= LARGE_FILE_THRESHOLD /\ r.gate = "passed"

\* C33: a request that took the large-file path and has ended, whether the
\* upload failed, the signing of the URL failed, the provider failed or the
\* provider answered, has had the delete of its staged object handed to
\* waitUntil, once; while it is on the path nothing is scheduled yet, and no
\* other request schedules a delete.
C33_StagedAlwaysDeleted ==
    /\ (TakesStagedPath(req) /\ req.pc = "done") => req.deletes = 1
    /\ (TakesStagedPath(req) /\ req.pc # "done") => req.deletes = 0
    /\ ~TakesStagedPath(req) => req.deletes = 0 /\ ~req.staged

\* C33: a large upload was staged, the signing of its URL failed, the request
\* ended 500 and the delete of the staged object was scheduled.
C33_Witness ==
    /\ TakesStagedPath(req)
    /\ req.staged
    /\ ~req.called
    /\ resp.status = 500
    /\ resp.details = "presign"
    /\ req.deletes = 1

\* C34: a trial request the gate decided on is answered 402, the device
\* denial, exactly when the device balance the gate read does not cover the
\* estimate, and then the counter of the address was not consulted; it is
\* answered 429, the denial of the address, exactly when the device balance
\* covers the estimate and the counter read leaves no room for it; the two
\* denials never carry the same status.
C34_DistinctDenials ==
    (req.idKind = "device" /\ req.gate # "none" /\ req.pc = "done") =>
        /\ resp.status = 402 <=> req.gateBalance < req.est
        /\ resp.status = 402 => resp.kind = "device_exhausted" /\ req.gateIpUsed = 0
        /\ resp.status = 429 <=>
              /\ req.gateBalance >= req.est
              /\ roundToTenth(req.gateIpUsed + req.est) > DAILY_FREE_CREDITS
        /\ resp.status = 429 <=> resp.kind = "ip_rate_limit"
        /\ resp.kind = "device_exhausted" <=> resp.status = 402

\* C34: a device with less left than the estimate, at an address whose counter
\* of the day leaves no room for the estimate either, got the device denial.
C34_Witness ==
    /\ req.idKind = "device"
    /\ resp.status = 402
    /\ resp.kind = "device_exhausted"
    /\ deviceKV.exists
    /\ deviceKV.creditsRemaining < req.est
    /\ req.gateBalance = deviceKV.creditsRemaining
    /\ ipDaily[today] + req.est > DAILY_FREE_CREDITS

\* C35: in the ElevenLabs client, every request after the first was preceded
\* by a backoff delay, 1s before the second request and doubling with each
\* attempt; none was issued immediately after the failure before it.
C35_RetryAfterBackoff ==
    \A i \in DOMAIN client.gaps :
        /\ client.gaps[i] > 0
        /\ client.gaps[i] = INITIAL_BACKOFF_MS * 2 ^ (i - 1)

\* C36: while the blocklist flag of the address is set, a request of that
\* address that is past the blocklist check was rejected there with 403, also
\* when the lookup of the flag failed.
C36_BlockedAlwaysRejected ==
    (ipBlocked /\ req.pc \notin {"idle", "ipcheck"}) =>
        /\ req.pc = "done"
        /\ resp.status = 403

\* C37: an entry of the license cache written by validateAndGetCredits says
\* invalid only for a key the backend reports as invalid; a backend call that
\* throws or a reply that is no success never leaves the valid key cached as
\* invalid.
C37_InvalidOnlyWhenReported ==
    \A k \in LicenseKeys :
        (licCache[k].cached /\ ~licCache[k].isValid) => ~BackendValidation(k).isValid

\* C38: a duplex session that ended with no audio duration accrued computed
\* zero credits, reported credits_used 0 in session_complete, and handed a
\* deduction of zero credits to waitUntil.
C38_ZeroDurationBillsNothing ==
    (sess.sessionEnded /\ sess.complete.duration_seconds = 0) =>
        /\ sess.complete.credits_used = 0
        /\ \A i \in TaskIds :
              (tasks[i].rid = req.rid /\ tasks[i].kind # "none") => tasks[i].amount = 0

\* C39: once the client socket of a duplex session has closed, the upstream
\* socket is eventually closed as well, whether it was still connecting or
\* open when the client closed.
C39_UpstreamEventuallyClosed ==
    (req.pc = "session" /\ sess.client = "closed") ~> (sess.up = "closed")

\* C40: the write of a deductDeviceCredits call, with no other deduction of
\* the device in flight or written, leaves the device with no less than what
\* was stored before the call minus the credits deducted, floored at zero,
\* also when the read of the balance failed.
C40_FailedReadKeepsBalance ==
    [][\A i \in TaskIds :
          (/\ tasks[i].kind = "deductDeviceCredits"
           /\ tasks[i].pc = "put"
           /\ tasks'[i].pc = "done"
           /\ \A j \in TaskIds \ {i} : tasks[j].kind # "deductDeviceCredits"
           /\ deviceKV.exists) =>
              deviceKV'.creditsRemaining >=
                  Max(0, deviceKV.creditsRemaining - tasks[i].amount)]_vars

====
